---- MODULE Spec2Model ----
(***************************************************************************)
(* Model of the RAG document Q&A pipeline (techlearn-center/rag-document-qa)*)
(*                                                                         *)
(*   src/src/ingest.py     chunk_document : sliding-window chunker          *)
(*                         process_documents : chunk records per document   *)
(*   src/src/qa_chain.py   build_context  : length-bounded context assembly *)
(*   src/src/retriever.py  initialize_collection, store_embeddings, search  *)
(*   src/src/embeddings.py get_client, generate_embeddings                  *)
(*                                                                         *)
(* Strings are sequences of one-character strings, so that slicing,        *)
(* formatting and joining are computed character by character.             *)
(***************************************************************************)
EXTENDS Integers, Sequences, FiniteSets, TLC

VARIABLES
    cpc,                 \* position inside chunk_document
    content,             \* chunk_document argument
    chunk_size,          \* chunk_document argument
    overlap,             \* chunk_document argument
    chunks,              \* local list `chunks` / the returned list
    start,               \* local `start`
    step,                \* local `step`
    starts,              \* history: offset in content at which each chunk begins
    bpc,                 \* position inside build_context
    results,             \* build_context argument
    max_context_length,  \* build_context argument
    context_parts,       \* local list `context_parts`
    total_length,        \* local `total_length`
    idx,                 \* loop index `i` of enumerate(results, 1)
    context,             \* the returned string
    spc,                 \* position inside the running retriever operation
    sop,                 \* the retriever operation being run
    recreate,            \* initialize_collection argument
    collection_names,    \* local `collection_names` of initialize_collection
    schunks,             \* store_embeddings argument `chunks`
    squery,              \* search argument `query_embedding`
    stop_k,              \* search argument `top_k`
    sret,                \* outcome of the retriever operation
    qdrant,              \* the vector store: collection name -> collection
    qdrant0,             \* history: the vector store when the operation began
    calls,               \* history: store requests issued by the operation
    ncalls,              \* number of retriever operations begun
    epc,                 \* position inside generate_embeddings
    texts,               \* generate_embeddings argument
    batch_size,          \* generate_embeddings argument
    api_key,             \* environment variable OPENAI_API_KEY
    client,              \* module-level handle `client` of embeddings.py
    client0,             \* history: the handle when the call began
    all_embeddings,      \* local list `all_embeddings`
    bi,                  \* loop variable `i` of range(0, len(texts), batch_size)
    inflight,            \* the batch whose request awaits its response
    requests,            \* history: batches sent to the embedding service
    responses,           \* history: number of responses received
    getcalls,            \* history: number of get_client calls
    constructed,         \* history: number of OpenAI clients constructed
    eret,                \* outcome of generate_embeddings
    ppc,                 \* position inside process_documents
    documents,           \* local `documents`, as load_documents returns them
    pchunk_size,         \* process_documents argument `chunk_size`
    poverlap,            \* process_documents argument `overlap`
    doc_i,               \* position of `doc` in documents
    doc_chunks,          \* local `chunks` of the current document
    ci,                  \* inner loop index `i` of enumerate(chunks)
    all_chunks,          \* local list `all_chunks` / the returned list
    qpc,                 \* position inside answer_question
    question,            \* answer_question argument
    top_k,               \* answer_question argument
    query_embedding,     \* local `query_embedding` of search_with_text
    retrieved,           \* local `results` of answer_question
    qa_context,          \* local `context` of answer_question
    prompt,              \* local `prompt` of answer_question
    reply,               \* history: the text the chat model replied
    qret,                \* outcome of answer_question
    events,              \* history: requests and pipeline stages, in order
    upc,                 \* position inside web_ui.ask_question
    history,             \* the chat history list passed to ask_question
    history0,            \* history: the chat history before the first call
    sources_text,        \* the sources text ask_question returned last
    asked,               \* history: the questions passed to ask_question
    qacalls,             \* history: number of answer_question calls
    keyreads,            \* history: number of reads of OPENAI_API_KEY
    handles,             \* history: what each get_client call gave back
    ecpc,                \* position inside embed_chunks
    echunks,             \* embed_chunks argument `chunks`, updated in place
    echunks0,            \* history: the chunks as they were passed
    zi,                  \* number of pairs the zip loop has handled
    ecret,               \* outcome of embed_chunks
    rpc,                 \* per caller: position inside initialize_collection
    rrecreate,           \* per caller: argument `recreate`
    rnames,              \* per caller: local `collection_names`
    rret,                \* per caller: outcome of the call
    rcalls               \* history: store requests of all callers, in order

chunkVars == <<cpc, content, chunk_size, overlap, chunks, start, step, starts>>
ctxVars   == <<bpc, results, max_context_length, context_parts, total_length,
               idx, context>>
storeVars == <<spc, sop, recreate, collection_names, schunks, squery, stop_k,
               sret, qdrant, qdrant0, calls, ncalls>>
embVars   == <<epc, texts, batch_size, api_key, client, client0,
               all_embeddings, bi, inflight, requests, responses, getcalls,
               constructed, eret>>
procVars  == <<ppc, documents, pchunk_size, poverlap, doc_i, doc_chunks, ci,
               all_chunks>>
qaVars    == <<qpc, question, top_k, query_embedding, retrieved, qa_context,
               prompt, reply, qret, events>>
uiVars    == <<upc, history, history0, sources_text, asked, qacalls>>
clientVars == <<keyreads, handles>>
embedVars == <<ecpc, echunks, echunks0, zi, ecret>>
raceVars  == <<rpc, rrecreate, rnames, rret, rcalls>>
vars      == <<chunkVars, ctxVars, storeVars, embVars, procVars, qaVars,
               uiVars, clientVars, embedVars, raceVars>>

----------------------------------------------------------------------------
(* Bounds of the model                                                     *)

MaxLen == 5            \* longest enumerated content
MaxChunkSize == 4      \* largest enumerated chunk_size
MaxOverlap == 4        \* largest enumerated overlap
MaxResults == 3        \* longest enumerated result list
MaxContextLength == 70 \* largest enumerated max_context_length
MaxCalls == 2          \* retriever operations run one after another
MaxStoreChunks == 2    \* longest enumerated store_embeddings input
MaxTopK == 3           \* largest enumerated top_k
MaxTexts == 4          \* longest enumerated list of texts
MaxBatchSize == 3      \* largest enumerated batch_size
MaxDocs == 2           \* most files in the documents directory
MaxRetrieved == 2      \* most results a search returns
MaxAsks == 2           \* ask_question calls made one after another
MaxGetCalls == 3       \* get_client calls made one after another
MaxEmbedChunks == 3    \* longest enumerated embed_chunks input
MaxCallers == 2        \* callers running initialize_collection at once

\* Iteration budget of the window loop: a loop whose window advances never
\* needs more than one iteration per character.
LoopBound == MaxLen + 2

Alphabet == {"a", "b", "c"}

\* Inputs of the chunking tests (tests/test_chunking.py, test_basic_chunking)
BasicLen == 1000
BasicChunkSize == 500
BasicOverlap == 100
BasicText == [i \in 1..BasicLen |-> "A"]

\* Inputs of test_chunk_count_reasonable (tests/test_chunking.py)
CountLen == 1000
CountChunkSize == 200
CountOverlap == 50
CountText == [i \in 1..CountLen |-> "A"]

----------------------------------------------------------------------------
(* Helpers                                                                 *)

Min(a, b) == IF a < b THEN a ELSE b
Max(a, b) == IF a > b THEN a ELSE b

\* All sequences over S of length 0..n
SeqsUpTo(S, n) == UNION {[1..k -> S] : k \in 0..n}

\* Python slice s[a:b] on a sequence: negative indices count from the end,
\* out-of-range indices are clamped, an empty range gives the empty sequence.
PyIndex(n, i) == IF i < 0 THEN Max(i + n, 0) ELSE Min(i, n)

PySlice(s, a, b) ==
    LET lo == PyIndex(Len(s), a)
        hi == PyIndex(Len(s), b)
    IN  IF lo >= hi THEN <<>> ELSE SubSeq(s, lo + 1, hi)

----------------------------------------------------------------------------
(* chunk_document (src/src/ingest.py)                                      *)

\* `if not content`
IsEmpty(c) == Len(c) = 0

FitsOneChunk_strict(c, size) == Len(c) < size
\* `if len(content) <= chunk_size`
FitsOneChunk(c, size) == Len(c) <= size

WindowStep_ignoreOverlap(size, ov) == size
WindowStep_offByOne(size, ov) == size - ov + 1
\* `step = chunk_size - overlap`
WindowStep(size, ov) == size - ov

LoopCond_dropTail(s, c, size) == s + size < Len(c)
\* `while start < len(content)`
LoopCond(s, c, size) == s < Len(c)

WindowEnd_offByOne(s, size) == s + size + 1
\* `end = start + chunk_size`
WindowEnd(s, size) == s + size

ChunkInputs ==
    {<<c, s, o>> : c \in SeqsUpTo(Alphabet, MaxLen),
                   s \in 1..MaxChunkSize,
                   o \in (-1)..MaxOverlap}
    \cup {<<BasicText, BasicChunkSize, BasicOverlap>>}
    \cup {<<CountText, CountChunkSize, CountOverlap>>}

CtxIdle ==
    /\ bpc = "idle"
    /\ results = <<>>
    /\ max_context_length = 0
    /\ context_parts = <<>>
    /\ total_length = 0
    /\ idx = 1
    /\ context = <<>>

StoreIdle ==
    /\ spc = "idle"
    /\ sop = "none"
    /\ recreate = FALSE
    /\ collection_names = {}
    /\ schunks = <<>>
    /\ squery = <<>>
    /\ stop_k = 1
    /\ sret = [kind |-> "none"]
    /\ qdrant = <<>>
    /\ qdrant0 = <<>>
    /\ calls = <<>>
    /\ ncalls = 0

\* "no value" of Python (None)
None == [none |-> TRUE]

EmbIdle ==
    /\ epc = "idle"
    /\ texts = <<>>
    /\ batch_size = 1
    /\ api_key = None
    /\ client = None
    /\ client0 = None
    /\ all_embeddings = <<>>
    /\ bi = 0
    /\ inflight = <<>>
    /\ requests = <<>>
    /\ responses = 0
    /\ getcalls = 0
    /\ constructed = 0
    /\ eret = [kind |-> "none"]

ProcIdle ==
    /\ ppc = "idle"
    /\ documents = <<>>
    /\ pchunk_size = 1
    /\ poverlap = 0
    /\ doc_i = 1
    /\ doc_chunks = <<>>
    /\ ci = 0
    /\ all_chunks = <<>>

QAIdle ==
    /\ qpc = "idle"
    /\ question = <<>>
    /\ top_k = 1
    /\ query_embedding = <<>>
    /\ retrieved = <<>>
    /\ qa_context = <<>>
    /\ prompt = <<>>
    /\ reply = None
    /\ qret = [kind |-> "none"]
    /\ events = <<>>

UiIdle ==
    /\ upc = "idle"
    /\ history = <<>>
    /\ history0 = <<>>
    /\ sources_text = <<>>
    /\ asked = <<>>
    /\ qacalls = 0

ClientIdle ==
    /\ keyreads = 0
    /\ handles = <<>>

EmbedIdle ==
    /\ ecpc = "idle"
    /\ echunks = <<>>
    /\ echunks0 = <<>>
    /\ zi = 0
    /\ ecret = [kind |-> "none"]

RaceIdle ==
    /\ rpc = <<>>
    /\ rrecreate = <<>>
    /\ rnames = <<>>
    /\ rret = <<>>
    /\ rcalls = <<>>

ChunkIdle ==
    /\ cpc = "idle"
    /\ content = <<>>
    /\ chunk_size = 1
    /\ overlap = 0
    /\ chunks = <<>>
    /\ start = 0
    /\ step = 0
    /\ starts = <<>>

InitChunk ==
    /\ \E inp \in ChunkInputs :
          /\ content = inp[1]
          /\ chunk_size = inp[2]
          /\ overlap = inp[3]
    /\ cpc = "call"
    /\ chunks = <<>>
    /\ start = 0
    /\ step = 0
    /\ starts = <<>>
    /\ CtxIdle
    /\ StoreIdle
    /\ EmbIdle
    /\ ProcIdle
    /\ QAIdle
    /\ UiIdle
    /\ ClientIdle
    /\ EmbedIdle
    /\ RaceIdle

\* lines 70-71: empty content returns []
ChunkReturnEmpty ==
    /\ cpc = "call"
    /\ IsEmpty(content)
    /\ chunks' = <<>>
    /\ cpc' = "done"
    /\ UNCHANGED <<content, chunk_size, overlap, start, step, starts>>

\* lines 73-74: content that fits one chunk is returned whole
ChunkReturnWhole ==
    /\ cpc = "call"
    /\ ~IsEmpty(content)
    /\ FitsOneChunk(content, chunk_size)
    /\ chunks' = <<content>>
    /\ starts' = <<0>>
    /\ cpc' = "done"
    /\ UNCHANGED <<content, chunk_size, overlap, start, step>>

\* lines 76-78: set up the sliding window
ChunkEnterLoop ==
    /\ cpc = "call"
    /\ ~IsEmpty(content)
    /\ ~FitsOneChunk(content, chunk_size)
    /\ chunks' = <<>>
    /\ start' = 0
    /\ step' = WindowStep(chunk_size, overlap)
    /\ cpc' = "loop"
    /\ UNCHANGED <<content, chunk_size, overlap, starts>>

\* lines 80-84: one iteration of the while loop
ChunkLoopBody ==
    /\ cpc = "loop"
    /\ LoopCond(start, content, chunk_size)
    /\ Len(chunks) < LoopBound
    /\ LET end == WindowEnd(start, chunk_size)
           chunk == PySlice(content, start, end)
       IN  /\ chunks' = Append(chunks, chunk)
           /\ starts' = Append(starts, start)
    /\ start' = start + step
    /\ UNCHANGED <<cpc, content, chunk_size, overlap, step>>

\* lines 80, 86: the loop condition fails, return chunks
ChunkLoopExit ==
    /\ cpc = "loop"
    /\ ~LoopCond(start, content, chunk_size)
    /\ cpc' = "done"
    /\ UNCHANGED <<content, chunk_size, overlap, chunks, start, step, starts>>

NextChunk ==
    /\ \/ ChunkReturnEmpty
       \/ ChunkReturnWhole
       \/ ChunkEnterLoop
       \/ ChunkLoopBody
       \/ ChunkLoopExit
    /\ UNCHANGED <<ctxVars, storeVars, embVars, procVars, qaVars, uiVars,
                 clientVars, embedVars, raceVars>>

SpecChunk == InitChunk /\ [][NextChunk]_vars

----------------------------------------------------------------------------
(* build_context (src/src/qa_chain.py)                                     *)

NewLine == <<"\n">>
SourceOpen == <<"[", "S", "o", "u", "r", "c", "e", " ">>
SourceSep == <<":", " ">>
SourceClose == <<"]", "\n">>
Unknown == <<"U", "n", "k", "n", "o", "w", "n">>

EmptyDict == [k \in {} |-> <<>>]

\* d.get(key, default)
DictGet(d, key, default) == IF key \in DOMAIN d THEN d[key] ELSE default

\* str(n) for n >= 0
DigitChars == <<"0", "1", "2", "3", "4", "5", "6", "7", "8", "9">>

RECURSIVE DecimalString(_)
DecimalString(n) ==
    IF n < 10 THEN <<DigitChars[n + 1]>>
    ELSE DecimalString(n \div 10) \o <<DigitChars[(n % 10) + 1]>>

PartIndex_zeroBased(pos) == pos - 1
\* `enumerate(results, 1)`: the index paired with the result at position pos
PartIndex(pos) == pos

\* `result.get("metadata", {}).get("source", "Unknown")`
SourceOf(result) == DictGet(DictGet(result, "metadata", EmptyDict), "source", Unknown)

\* `f"[Source {i}: {source}]\n{content}\n"`
FormatPart(i, source, text) ==
    SourceOpen \o DecimalString(i) \o SourceSep \o source \o SourceClose
        \o text \o NewLine

Overflows_inclusive(total, partLen, maxLen) == total + partLen >= maxLen
\* `if total_length + len(part) > max_context_length`
Overflows(total, partLen, maxLen) == total + partLen > maxLen

\* `sep.join(parts)`
RECURSIVE Join(_, _)
Join(sep, parts) ==
    IF Len(parts) = 0 THEN <<>>
    ELSE IF Len(parts) = 1 THEN parts[1]
    ELSE parts[1] \o sep \o Join(sep, Tail(parts))

Contents == {<<"x">>, <<"y", "y", "y", "y">>}
Sources == {<<"a">>}
Metadatas == {EmptyDict} \cup {[source |-> src] : src \in Sources}
ResultChoices ==
    {[content |-> c] : c \in Contents}
    \cup {[content |-> c, metadata |-> m] : c \in Contents, m \in Metadatas}

InitCtx ==
    /\ results \in SeqsUpTo(ResultChoices, MaxResults)
    /\ max_context_length \in 0..MaxContextLength
    /\ bpc = "call"
    /\ context_parts = <<>>
    /\ total_length = 0
    /\ idx = 1
    /\ context = <<>>
    /\ ChunkIdle
    /\ StoreIdle
    /\ EmbIdle
    /\ ProcIdle
    /\ QAIdle
    /\ UiIdle
    /\ ClientIdle
    /\ EmbedIdle
    /\ RaceIdle

\* the part built from the result at position pos (lines 34-37)
PartAt(pos) ==
    FormatPart(PartIndex(pos), SourceOf(results[pos]), results[pos].content)

\* lines 30-31: initialise the accumulators
BuildEnter ==
    /\ bpc = "call"
    /\ context_parts' = <<>>
    /\ total_length' = 0
    /\ idx' = 1
    /\ bpc' = "loop"
    /\ UNCHANGED <<results, max_context_length, context>>

\* lines 33-43: the part fits, append it and go on
BuildAppend ==
    /\ bpc = "loop"
    /\ idx <= Len(results)
    /\ LET part == PartAt(idx)
       IN  /\ ~Overflows(total_length, Len(part), max_context_length)
           /\ context_parts' = Append(context_parts, part)
           /\ total_length' = total_length + Len(part)
    /\ idx' = idx + 1
    /\ UNCHANGED <<bpc, results, max_context_length, context>>

\* lines 39-40, 45: the part would overflow, break and return the join
BuildBreak ==
    /\ bpc = "loop"
    /\ idx <= Len(results)
    /\ Overflows(total_length, Len(PartAt(idx)), max_context_length)
    /\ context' = Join(NewLine, context_parts)
    /\ bpc' = "done"
    /\ UNCHANGED <<results, max_context_length, context_parts, total_length, idx>>

\* lines 33, 45: results exhausted, return the join
BuildExhausted ==
    /\ bpc = "loop"
    /\ idx > Len(results)
    /\ context' = Join(NewLine, context_parts)
    /\ bpc' = "done"
    /\ UNCHANGED <<results, max_context_length, context_parts, total_length, idx>>

NextCtx ==
    /\ \/ BuildEnter
       \/ BuildAppend
       \/ BuildBreak
       \/ BuildExhausted
    /\ UNCHANGED <<chunkVars, storeVars, embVars, procVars, qaVars, uiVars,
                 clientVars, embedVars, raceVars>>

SpecCtx == InitCtx /\ [][NextCtx]_vars

----------------------------------------------------------------------------
(* Vector store operations (src/src/retriever.py)                          *)

COLLECTION_NAME == "documents"
VECTOR_SIZE == 1536
COSINE == "Cosine"

\* `[v] * VECTOR_SIZE`
ConstVector(v) == [i \in 1..VECTOR_SIZE |-> v]

\* The store as the client sees it: a map from collection name to
\* [size, distance, points], points being a map from point id to
\* [vector, payload].
NoPoints == <<>>

\* client.get_collections(): the names of the collections
QGetCollections(q) == DOMAIN q

\* client.delete_collection(name): the collection and its points are gone
QDeleteCollection(q, name) == [n \in (DOMAIN q) \ {name} |-> q[n]]

\* client.create_collection(name, VectorParams(size, distance)): a new empty
\* collection; the store refuses a name that is already taken
QCreateCollection(q, name, size, distance) ==
    IF name \in DOMAIN q
    THEN [ok |-> FALSE, store |-> q]
    ELSE [ok |-> TRUE,
          store |-> [n \in (DOMAIN q) \cup {name} |->
                        IF n = name
                        THEN [size |-> size, distance |-> distance,
                              points |-> NoPoints]
                        ELSE q[n]]]

NameListed_never(name, names) == FALSE
\* `if COLLECTION_NAME in collection_names`
NameListed(name, names) == name \in names

MustDelete_never(listed, rec) == FALSE
\* `if COLLECTION_NAME in collection_names: if recreate:`
MustDelete(listed, rec) == listed /\ rec

\* `else: return`
ReturnsEarly(listed, rec) == listed /\ ~rec

StoredPayloads ==
    {[content |-> <<"m">>, metadata |-> [source |-> <<"a">>]],
     [content |-> <<"n">>, metadata |-> [source |-> <<"b">>]]}

\* point sets a collection may hold from earlier runs
StoredPoint(v, p) == [vector |-> ConstVector(v), payload |-> p]

PointSets ==
    {NoPoints}
    \cup {<<StoredPoint(1, p)>> : p \in StoredPayloads}
    \cup {<<StoredPoint(1, p1), StoredPoint(2, p2)>>
             : p1 \in StoredPayloads, p2 \in StoredPayloads}

DocumentsCollections ==
    {[size |-> VECTOR_SIZE, distance |-> COSINE, points |-> ps] : ps \in PointSets}

\* states of the external store: the collection absent or present, with or
\* without another collection next to it
InitialStores ==
    {<<>>, [other |-> [size |-> 4, distance |-> COSINE, points |-> NoPoints]]}
    \cup {[documents |-> c] : c \in DocumentsCollections}
    \cup {[documents |-> c,
           other |-> [size |-> 4, distance |-> COSINE, points |-> NoPoints]]
             : c \in DocumentsCollections}

EmbeddedChunks ==
    {[content |-> <<"p">>, embedding |-> ConstVector(1),
      metadata |-> [source |-> <<"a">>, chunk_index |-> 0]],
     [content |-> <<"q">>, embedding |-> ConstVector(2),
      metadata |-> [source |-> <<"a">>, chunk_index |-> 1]]}

\* the arguments of one retriever operation
StoreOps ==
    {[op |-> "initialize_collection", recreate |-> r, chunks |-> <<>>,
      query |-> <<>>, top_k |-> 1] : r \in BOOLEAN}
    \cup {[op |-> "store_embeddings", recreate |-> FALSE, chunks |-> cs,
           query |-> <<>>, top_k |-> 1]
             : cs \in SeqsUpTo(EmbeddedChunks, MaxStoreChunks)}
    \cup {[op |-> "search", recreate |-> FALSE, chunks |-> <<>>,
           query |-> ConstVector(v), top_k |-> k]
             : v \in {1, 2}, k \in 1..MaxTopK}

\* an operation is called with arguments o
BeginOp(o) ==
    /\ sop' = o.op
    /\ recreate' = o.recreate
    /\ schunks' = o.chunks
    /\ squery' = o.query
    /\ stop_k' = o.top_k
    /\ spc' = "call"
    /\ collection_names' = {}
    /\ sret' = [kind |-> "none"]
    /\ calls' = <<>>

InitStore ==
    /\ qdrant \in InitialStores
    /\ qdrant0 = qdrant
    /\ \E o \in StoreOps :
          /\ sop = o.op
          /\ recreate = o.recreate
          /\ schunks = o.chunks
          /\ squery = o.query
          /\ stop_k = o.top_k
    /\ spc = "call"
    /\ collection_names = {}
    /\ sret = [kind |-> "none"]
    /\ calls = <<>>
    /\ ncalls = 1
    /\ ChunkIdle
    /\ CtxIdle
    /\ EmbIdle
    /\ ProcIdle
    /\ QAIdle
    /\ UiIdle
    /\ ClientIdle
    /\ EmbedIdle
    /\ RaceIdle

\* the caller goes on to its next retriever operation
NextOperation ==
    /\ spc = "done"
    /\ ncalls < MaxCalls
    /\ \E o \in StoreOps : BeginOp(o)
    /\ ncalls' = ncalls + 1
    /\ qdrant0' = qdrant
    /\ UNCHANGED qdrant

\* retriever.py:37-38: list the collection names
InitCollectionList ==
    /\ spc = "call"
    /\ sop = "initialize_collection"
    /\ collection_names' = QGetCollections(qdrant)
    /\ calls' = Append(calls, "get_collections")
    /\ spc' = "listed"
    /\ UNCHANGED <<sop, recreate, schunks, squery, stop_k, sret, qdrant,
                   qdrant0, ncalls>>

\* retriever.py:40, 43-44: the collection exists and is kept
InitCollectionKeep ==
    /\ spc = "listed"
    /\ ReturnsEarly(NameListed(COLLECTION_NAME, collection_names), recreate)
    /\ sret' = [kind |-> "returned"]
    /\ spc' = "done"
    /\ UNCHANGED <<sop, recreate, collection_names, schunks, squery, stop_k,
                   qdrant, qdrant0, calls, ncalls>>

\* retriever.py:40-42: the collection exists and is deleted first
InitCollectionDelete ==
    /\ spc = "listed"
    /\ MustDelete(NameListed(COLLECTION_NAME, collection_names), recreate)
    /\ qdrant' = QDeleteCollection(qdrant, COLLECTION_NAME)
    /\ calls' = Append(calls, "delete_collection")
    /\ spc' = "create"
    /\ UNCHANGED <<sop, recreate, collection_names, schunks, squery, stop_k,
                   sret, qdrant0, ncalls>>

\* retriever.py:46-53: create the collection; a refusal of the store
\* propagates as an exception
InitCollectionCreate ==
    /\ \/ spc = "create"
       \/ /\ spc = "listed"
          /\ ~ReturnsEarly(NameListed(COLLECTION_NAME, collection_names), recreate)
          /\ ~MustDelete(NameListed(COLLECTION_NAME, collection_names), recreate)
    /\ LET r == QCreateCollection(qdrant, COLLECTION_NAME, VECTOR_SIZE, COSINE)
       IN  /\ qdrant' = r.store
           /\ sret' = IF r.ok THEN [kind |-> "returned"]
                      ELSE [kind |-> "raised", error |-> "UnexpectedResponse"]
    /\ calls' = Append(calls, "create_collection")
    /\ spc' = "done"
    /\ UNCHANGED <<sop, recreate, collection_names, schunks, squery, stop_k,
                   qdrant0, ncalls>>

\* retriever.py:84-86: store_embeddings raises NotImplementedError
StoreEmbeddings ==
    /\ spc = "call"
    /\ sop = "store_embeddings"
    /\ sret' = [kind |-> "raised", error |-> "NotImplementedError"]
    /\ spc' = "done"
    /\ UNCHANGED <<sop, recreate, collection_names, schunks, squery, stop_k,
                   qdrant, qdrant0, calls, ncalls>>

\* retriever.py:121-123: search raises NotImplementedError
Search ==
    /\ spc = "call"
    /\ sop = "search"
    /\ sret' = [kind |-> "raised", error |-> "NotImplementedError"]
    /\ spc' = "done"
    /\ UNCHANGED <<sop, recreate, collection_names, schunks, squery, stop_k,
                   qdrant, qdrant0, calls, ncalls>>

NextStore ==
    /\ \/ NextOperation
       \/ InitCollectionList
       \/ InitCollectionKeep
       \/ InitCollectionDelete
       \/ InitCollectionCreate
       \/ StoreEmbeddings
       \/ Search
    /\ UNCHANGED <<chunkVars, ctxVars, embVars, procVars, qaVars, uiVars,
                 clientVars, embedVars, raceVars>>

SpecStore == InitStore /\ [][NextStore]_vars

----------------------------------------------------------------------------
(* generate_embeddings and get_client (src/src/embeddings.py)              *)

NoTexts_never(ts) == FALSE
\* `if not texts`
NoTexts(ts) == Len(ts) = 0

CredentialMissing_unsetOnly(key) == key = None
\* `if not api_key`: the variable is unset or empty
CredentialMissing(key) == key = None \/ key = <<>>

\* `OpenAI(api_key=api_key)`
NewClient(key) == [api_key |-> key]

BatchOf_short(ts, i, size) == PySlice(ts, i, i + size - 1)
\* `texts[i:i + batch_size]`
BatchOf(ts, i, size) == PySlice(ts, i, i + size)

\* `range(0, len(texts), batch_size)`: the loop goes on while i < len(texts)
InRange(i, ts) == i < Len(ts)

\* the embedding service: one vector of VECTOR_SIZE numbers per text, the
\* same text always giving the same vector
EmbeddingOf(t) == ConstVector(Len(t))

\* `[item.embedding for item in response.data]` for the request `batch`
BatchEmbeddings(batch) == [k \in 1..Len(batch) |-> EmbeddingOf(batch[k])]

TextChoices == {<<"u">>, <<"v", "v">>}
KeyChoices == {None, <<>>, <<"s", "k">>}

InitEmb ==
    /\ texts \in SeqsUpTo(TextChoices, MaxTexts)
    /\ batch_size \in 1..MaxBatchSize
    /\ api_key \in KeyChoices
    /\ client \in {None, NewClient(<<"s", "k">>)}
    /\ client0 = client
    /\ epc = "call"
    /\ all_embeddings = <<>>
    /\ bi = 0
    /\ inflight = <<>>
    /\ requests = <<>>
    /\ responses = 0
    /\ getcalls = 0
    /\ constructed = 0
    /\ eret = [kind |-> "none"]
    /\ ChunkIdle
    /\ CtxIdle
    /\ StoreIdle
    /\ ProcIdle
    /\ QAIdle
    /\ UiIdle
    /\ ClientIdle
    /\ EmbedIdle
    /\ RaceIdle

\* embeddings.py:67-68: nothing to embed
GenerateNothing ==
    /\ epc = "call"
    /\ NoTexts(texts)
    /\ eret' = [kind |-> "returned", value |-> <<>>]
    /\ epc' = "done"
    /\ UNCHANGED <<texts, batch_size, api_key, client, client0, all_embeddings,
                   bi, inflight, requests, responses, getcalls, constructed>>

\* embeddings.py:70-71 with 24, 33: get_client returns the existing handle
GetClientCached ==
    /\ epc = "call"
    /\ ~NoTexts(texts)
    /\ client # None
    /\ getcalls' = getcalls + 1
    /\ all_embeddings' = <<>>
    /\ bi' = 0
    /\ epc' = "loop"
    /\ UNCHANGED <<texts, batch_size, api_key, client, client0, inflight,
                   requests, responses, constructed, eret>>

\* embeddings.py:70 with 24-31: no handle and no credential, ValueError
GetClientMissingKey ==
    /\ epc = "call"
    /\ ~NoTexts(texts)
    /\ client = None
    /\ CredentialMissing(api_key)
    /\ getcalls' = getcalls + 1
    /\ eret' = [kind |-> "raised", error |-> "ValueError"]
    /\ epc' = "done"
    /\ UNCHANGED <<texts, batch_size, api_key, client, client0, all_embeddings,
                   bi, inflight, requests, responses, constructed>>

\* embeddings.py:70-71 with 24-33: no handle yet, construct it
GetClientCreate ==
    /\ epc = "call"
    /\ ~NoTexts(texts)
    /\ client = None
    /\ ~CredentialMissing(api_key)
    /\ getcalls' = getcalls + 1
    /\ client' = NewClient(api_key)
    /\ constructed' = constructed + 1
    /\ all_embeddings' = <<>>
    /\ bi' = 0
    /\ epc' = "loop"
    /\ UNCHANGED <<texts, batch_size, api_key, client0, inflight, requests,
                   responses, eret>>

\* embeddings.py:73-75: send the next batch and wait for the response
GenerateRequest ==
    /\ epc = "loop"
    /\ InRange(bi, texts)
    /\ LET batch == BatchOf(texts, bi, batch_size)
       IN  /\ inflight' = batch
           /\ requests' = Append(requests, batch)
    /\ epc' = "waiting"
    /\ UNCHANGED <<texts, batch_size, api_key, client, client0, all_embeddings,
                   bi, responses, getcalls, constructed, eret>>

\* embeddings.py:75-77: the response arrives, its vectors are appended
GenerateResponse ==
    /\ epc = "waiting"
    /\ all_embeddings' = all_embeddings \o BatchEmbeddings(inflight)
    /\ responses' = responses + 1
    /\ inflight' = <<>>
    /\ bi' = bi + batch_size
    /\ epc' = "loop"
    /\ UNCHANGED <<texts, batch_size, api_key, client, client0, requests,
                   getcalls, constructed, eret>>

\* embeddings.py:73, 79: all batches done
GenerateReturn ==
    /\ epc = "loop"
    /\ ~InRange(bi, texts)
    /\ eret' = [kind |-> "returned", value |-> all_embeddings]
    /\ epc' = "done"
    /\ UNCHANGED <<texts, batch_size, api_key, client, client0, all_embeddings,
                   bi, inflight, requests, responses, getcalls, constructed>>

NextEmb ==
    /\ \/ GenerateNothing
       \/ GetClientCached
       \/ GetClientMissingKey
       \/ GetClientCreate
       \/ GenerateRequest
       \/ GenerateResponse
       \/ GenerateReturn
    /\ UNCHANGED <<chunkVars, ctxVars, storeVars, procVars, qaVars, uiVars,
                 clientVars, embedVars, raceVars>>

SpecEmb == InitEmb /\ [][NextEmb]_vars

----------------------------------------------------------------------------
(* process_documents (src/src/ingest.py)                                   *)

\* the while loop of chunk_document, run from `start` to its end
RECURSIVE Windows(_, _, _, _)
Windows(c, size, stp, s) ==
    IF LoopCond(s, c, size)
    THEN <<PySlice(c, s, WindowEnd(s, size))>> \o Windows(c, size, stp, s + stp)
    ELSE <<>>

\* chunk_document(content, chunk_size, overlap) as a whole, for a step >= 1
ChunkDocument(c, size, ov) ==
    IF IsEmpty(c) THEN <<>>
    ELSE IF FitsOneChunk(c, size) THEN <<c>>
    ELSE Windows(c, size, WindowStep(size, ov), 0)

ChunkMetadata_countSoFar(md, i, total) ==
    [source |-> md.source, path |-> md.path,
     chunk_index |-> i, total_chunks |-> i + 1]
\* `{**doc["metadata"], "chunk_index": i, "total_chunks": len(chunks)}`
ChunkMetadata(md, i, total) ==
    [source |-> md.source, path |-> md.path,
     chunk_index |-> i, total_chunks |-> total]

\* load_documents: one document per *.txt file, named after the file
FileName(k) == <<"f">> \o DecimalString(k) \o <<".", "t", "x", "t">>
FilePath(k) == <<"d", "/">> \o FileName(k)

LoadedDocument(k, text) ==
    [content |-> text,
     metadata |-> [source |-> FileName(k), path |-> FilePath(k)]]

FileContents == {<<>>, <<"a", "b">>, <<"a", "b", "c", "a", "b">>}

\* the directory listings: distinct files in any order
Listings ==
    {fs \in SeqsUpTo(1..MaxDocs, MaxDocs) :
        \A i, j \in 1..Len(fs) : fs[i] = fs[j] => i = j}

DocumentLists ==
    UNION {{[i \in 1..Len(fs) |-> LoadedDocument(fs[i], ts[i])]
              : ts \in [1..Len(fs) -> FileContents]} : fs \in Listings}

InitProc ==
    /\ documents \in DocumentLists
    /\ pchunk_size \in 1..MaxChunkSize
    /\ poverlap \in (-1)..(pchunk_size - 1)
    /\ ppc = "call"
    /\ doc_i = 1
    /\ doc_chunks = <<>>
    /\ ci = 0
    /\ all_chunks = <<>>
    /\ ChunkIdle
    /\ CtxIdle
    /\ StoreIdle
    /\ EmbIdle
    /\ QAIdle
    /\ UiIdle
    /\ ClientIdle
    /\ EmbedIdle
    /\ RaceIdle

\* ingest.py:101-102: load the documents, start with no chunks
ProcessLoad ==
    /\ ppc = "call"
    /\ all_chunks' = <<>>
    /\ doc_i' = 1
    /\ ppc' = "docs"
    /\ UNCHANGED <<documents, pchunk_size, poverlap, doc_chunks, ci>>

\* ingest.py:104-105: chunk the next document
ProcessChunkDocument ==
    /\ ppc = "docs"
    /\ doc_i <= Len(documents)
    /\ doc_chunks' = ChunkDocument(documents[doc_i].content, pchunk_size, poverlap)
    /\ ci' = 0
    /\ ppc' = "chunks"
    /\ UNCHANGED <<documents, pchunk_size, poverlap, doc_i, all_chunks>>

\* ingest.py:106-114: emit the record of the next chunk
ProcessAppend ==
    /\ ppc = "chunks"
    /\ ci < Len(doc_chunks)
    /\ all_chunks' = Append(all_chunks,
          [content |-> doc_chunks[ci + 1],
           metadata |-> ChunkMetadata(documents[doc_i].metadata, ci,
                                      Len(doc_chunks))])
    /\ ci' = ci + 1
    /\ UNCHANGED <<ppc, documents, pchunk_size, poverlap, doc_i, doc_chunks>>

\* ingest.py:106, 104: the chunks of this document are done
ProcessNextDocument ==
    /\ ppc = "chunks"
    /\ ci >= Len(doc_chunks)
    /\ doc_i' = doc_i + 1
    /\ ppc' = "docs"
    /\ UNCHANGED <<documents, pchunk_size, poverlap, doc_chunks, ci, all_chunks>>

\* ingest.py:104, 116: all documents done, return all_chunks
ProcessReturn ==
    /\ ppc = "docs"
    /\ doc_i > Len(documents)
    /\ ppc' = "done"
    /\ UNCHANGED <<documents, pchunk_size, poverlap, doc_i, doc_chunks, ci,
                   all_chunks>>

NextProc ==
    /\ \/ ProcessLoad
       \/ ProcessChunkDocument
       \/ ProcessAppend
       \/ ProcessNextDocument
       \/ ProcessReturn
    /\ UNCHANGED <<chunkVars, ctxVars, storeVars, embVars, qaVars, uiVars,
                 clientVars, embedVars, raceVars>>

SpecProc == InitProc /\ [][NextProc]_vars

----------------------------------------------------------------------------
(* answer_question (src/src/qa_chain.py), search_with_text                 *)
(* (src/src/retriever.py)                                                  *)

\* `max_context_length: int = 3000`
DEFAULT_MAX_CONTEXT_LENGTH == 3000

\* the for loop of build_context, run from position pos with `total`
\* characters collected so far
RECURSIVE ContextParts(_, _, _, _)
ContextParts(rs, maxLen, pos, total) ==
    IF pos > Len(rs) THEN <<>>
    ELSE LET part == FormatPart(PartIndex(pos), SourceOf(rs[pos]),
                                rs[pos].content)
         IN  IF Overflows(total, Len(part), maxLen) THEN <<>>
             ELSE <<part>> \o ContextParts(rs, maxLen, pos + 1,
                                           total + Len(part))

\* build_context(results, max_context_length) as a whole
BuildContext(rs, maxLen) == Join(NewLine, ContextParts(rs, maxLen, 1, 0))

PromptHead ==
    <<"Y", "o", "u", " ", "a", "r", "e", " ", "a", " ", "h", "e", "l", "p",
      "f", "u", "l", " ", "a", "s", "s", "i", "s", "t", "a", "n", "t", ".",
      " ", "A", "n", "s", "w", "e", "r", " ", "t", "h", "e", " ", "q", "u",
      "e", "s", "t", "i", "o", "n", " ", "b", "a", "s", "e", "d", " ", "O",
      "N", "L", "Y", " ", "o", "n", " ", "t", "h", "e", " ", "p", "r", "o",
      "v", "i", "d", "e", "d", " ", "c", "o", "n", "t", "e", "x", "t", ".",
      "\n", "I", "f", " ", "t", "h", "e", " ", "c", "o", "n", "t", "e",
      "x", "t", " ", "d", "o", "e", "s", "n", "'", "t", " ", "c", "o", "n",
      "t", "a", "i", "n", " ", "t", "h", "e", " ", "a", "n", "s", "w", "e",
      "r", ",", " ", "s", "a", "y", " ", "\"", "I", " ", "d", "o", "n",
      "'", "t", " ", "h", "a", "v", "e", " ", "e", "n", "o", "u", "g", "h",
      " ", "i", "n", "f", "o", "r", "m", "a", "t", "i", "o", "n", " ", "t",
      "o", " ", "a", "n", "s", "w", "e", "r", " ", "t", "h", "i", "s", " ",
      "q", "u", "e", "s", "t", "i", "o", "n", ".", "\"", "\n", "\n", "C",
      "o", "n", "t", "e", "x", "t", ":", "\n">>
PromptMid ==
    <<"\n", "\n", "Q", "u", "e", "s", "t", "i", "o", "n", ":", " ">>
PromptTail ==
    <<"\n", "\n", "A", "n", "s", "w", "e", "r", ":">>

\* the f-string of qa_chain.py:107-115
PromptOf(ctx, q) == PromptHead \o ctx \o PromptMid \o q \o PromptTail

\* get_client(): the handle it returns, whether it had to build one, or the
\* failure for a missing credential
GetClientOutcome_alwaysBuild(handle, key) ==
    IF CredentialMissing(key) THEN [ok |-> FALSE]
    ELSE [ok |-> TRUE, client |-> NewClient(key), built |-> 1]
GetClientOutcome(handle, key) ==
    IF handle # None THEN [ok |-> TRUE, client |-> handle, built |-> 0]
    ELSE IF CredentialMissing(key) THEN [ok |-> FALSE]
    ELSE [ok |-> TRUE, client |-> NewClient(key), built |-> 1]

SearchNotImplemented_swallowed == [kind |-> "returned", value |-> <<>>]
SearchNotImplemented ==
    [kind |-> "raised", error |-> "NotImplementedError", message |->
      <<"I", "m", "p", "l", "e", "m", "e", "n", "t", " ", "s", "e", "a",
        "r", "c", "h", "(", ")", " ", "-", " ", "S", "e", "e", " ", "h",
        "i", "n", "t", "s", " ", "a", "b", "o", "v", "e", "!">>]

CredentialError ==
    [kind |-> "raised", error |-> "ValueError", message |->
      <<"O", "P", "E", "N", "A", "I", "_", "A", "P", "I", "_", "K", "E",
        "Y", " ", "e", "n", "v", "i", "r", "o", "n", "m", "e", "n", "t",
        " ", "v", "a", "r", "i", "a", "b", "l", "e", " ", "i", "s", " ",
        "n", "o", "t", " ", "s", "e", "t", ".", "\n", "G", "e", "t", " ",
        "y", "o", "u", "r", " ", "A", "P", "I", " ", "k", "e", "y", " ",
        "f", "r", "o", "m", ":", " ", "h", "t", "t", "p", "s", ":", "/",
        "/", "p", "l", "a", "t", "f", "o", "r", "m", ".", "o", "p", "e",
        "n", "a", "i", ".", "c", "o", "m", "/", "a", "p", "i", "-", "k",
        "e", "y", "s", "\n", "T", "h", "e", "n", " ", "r", "u", "n", ":",
        " ", "e", "x", "p", "o", "r", "t", " ", "O", "P", "E", "N", "A",
        "I", "_", "A", "P", "I", "_", "K", "E", "Y", "=", "'", "y", "o",
        "u", "r", "-", "k", "e", "y", "-", "h", "e", "r", "e", "'">>]

\* a request to the embedding or chat service that fails
ServiceError ==
    [kind |-> "raised", error |-> "APIConnectionError", message |->
      <<"C", "o", "n", "n", "e", "c", "t", "i", "o", "n", " ", "e", "r",
        "r", "o", "r", ".">>]

\* Results of a search that returns: at most top_k results with content,
\* metadata and score, highest score first.
LongContent == [i \in 1..DEFAULT_MAX_CONTEXT_LENGTH |-> "A"]
RetrievedContents == {<<"x">>, LongContent}
RetrievedMetadatas == {EmptyDict, [source |-> <<"a">>]}

RetrievedLists(k) ==
    UNION {{[i \in 1..n |-> [content |-> cs[i], metadata |-> ms[i],
                             score |-> n + 1 - i]]
              : cs \in [1..n -> RetrievedContents],
                ms \in [1..n -> RetrievedMetadatas]}
           : n \in 0..Min(k, MaxRetrieved)}

\* `[r.get("metadata", {}).get("source", "Unknown") for r in results]`
ResultSources(rs) == [i \in 1..Len(rs) |-> SourceOf(rs[i])]

Range(f) == {f[i] : i \in DOMAIN f}

UniqueLists_keepDuplicates(srcs) == {srcs}
\* `list(set(sources))`: every distinct source once, in the iteration order
\* of the set, which the language leaves open
UniqueLists(srcs) ==
    LET S == Range(srcs)
    IN  {l \in [1..Cardinality(S) -> S] : Range(l) = S}

QuestionChoices == {<<>>, <<" ">>, <<"q">>, <<" ", "q">>}
AnswerChoices == {<<>>, <<"o", "k">>}

EmbLocalsIdle ==
    /\ epc = "idle"
    /\ texts = <<>>
    /\ batch_size = 1
    /\ all_embeddings = <<>>
    /\ bi = 0
    /\ inflight = <<>>
    /\ requests = <<>>
    /\ responses = 0
    /\ eret = [kind |-> "none"]

embLocals == <<epc, texts, batch_size, client0, all_embeddings, bi, inflight,
               requests, responses, eret>>

InitQA ==
    /\ question \in QuestionChoices
    /\ top_k \in 1..MaxTopK
    /\ api_key \in KeyChoices
    /\ client \in {None, NewClient(<<"s", "k">>)}
    /\ client0 = client
    /\ getcalls = 0
    /\ constructed = 0
    /\ qpc = "call"
    /\ query_embedding = <<>>
    /\ retrieved = <<>>
    /\ qa_context = <<>>
    /\ prompt = <<>>
    /\ reply = None
    /\ qret = [kind |-> "none"]
    /\ events = <<>>
    /\ EmbLocalsIdle
    /\ ChunkIdle
    /\ CtxIdle
    /\ StoreIdle
    /\ ProcIdle
    /\ ClientIdle
    /\ EmbedIdle
    /\ RaceIdle
    /\ UiIdle

\* embeddings.py:24-31, reached from retriever.py:139 and qa_chain.py:118:
\* no handle and no credential, the ValueError propagates
AnswerCredentialMissing ==
    /\ qpc \in {"call", "chat"}
    /\ ~GetClientOutcome(client, api_key).ok
    /\ getcalls' = getcalls + 1
    /\ qret' = CredentialError
    /\ qpc' = "done"
    /\ UNCHANGED <<question, top_k, query_embedding, retrieved, qa_context,
                   prompt, reply, events, api_key, client, constructed>>

\* qa_chain.py:101, retriever.py:139, embeddings.py:67-75: the question is
\* sent to the embedding service
AnswerEmbedRequest ==
    /\ qpc = "call"
    /\ LET g == GetClientOutcome(client, api_key)
       IN  /\ g.ok
           /\ client' = g.client
           /\ constructed' = constructed + g.built
    /\ getcalls' = getcalls + 1
    /\ events' = Append(events, "embeddings.create")
    /\ qpc' = "embedding"
    /\ UNCHANGED <<question, top_k, query_embedding, retrieved, qa_context,
                   prompt, reply, qret, api_key>>

\* embeddings.py:75-79, retriever.py:139: the vector of the question
AnswerEmbedResponse ==
    /\ qpc = "embedding"
    /\ query_embedding' = BatchEmbeddings(<<question>>)[1]
    /\ qpc' = "search"
    /\ UNCHANGED <<question, top_k, retrieved, qa_context, prompt, reply, qret,
                   events, api_key, client, getcalls, constructed>>

\* embeddings.py:75: the embedding request fails, the error propagates
AnswerEmbedFails ==
    /\ qpc = "embedding"
    /\ qret' = ServiceError
    /\ qpc' = "done"
    /\ UNCHANGED <<question, top_k, query_embedding, retrieved, qa_context,
                   prompt, reply, events, api_key, client, getcalls, constructed>>

\* retriever.py:140 with 121-123: search raises NotImplementedError, which
\* propagates through search_with_text and answer_question
AnswerSearchRaises ==
    /\ qpc = "search"
    /\ events' = Append(events, "search")
    /\ qret' = SearchNotImplemented
    /\ qpc' = "done"
    /\ UNCHANGED <<question, top_k, query_embedding, retrieved, qa_context,
                   prompt, reply, api_key, client, getcalls, constructed>>

\* retriever.py:140, qa_chain.py:101: search returns its ranked results
AnswerSearchReturns ==
    /\ qpc = "search"
    /\ events' = Append(events, "search")
    /\ retrieved' \in RetrievedLists(top_k)
    /\ qpc' = "context"
    /\ UNCHANGED <<question, top_k, query_embedding, qa_context, prompt, reply, qret,
                   api_key, client, getcalls, constructed>>

\* qa_chain.py:104-115: build the context and the prompt
AnswerBuildContext ==
    /\ qpc = "context"
    /\ LET ctx == BuildContext(retrieved, DEFAULT_MAX_CONTEXT_LENGTH)
       IN  /\ qa_context' = ctx
           /\ prompt' = PromptOf(ctx, question)
    /\ events' = Append(events, "build_context")
    /\ qpc' = "chat"
    /\ UNCHANGED <<question, top_k, query_embedding, retrieved, reply, qret,
                   api_key, client, getcalls, constructed>>

\* qa_chain.py:118-123: the prompt is sent to the chat model
AnswerChatRequest ==
    /\ qpc = "chat"
    /\ LET g == GetClientOutcome(client, api_key)
       IN  /\ g.ok
           /\ client' = g.client
           /\ constructed' = constructed + g.built
    /\ getcalls' = getcalls + 1
    /\ events' = Append(events, "chat.completions.create")
    /\ qpc' = "chatting"
    /\ UNCHANGED <<question, top_k, query_embedding, retrieved, qa_context,
                   prompt, reply, qret, api_key>>

\* qa_chain.py:124-133: the reply arrives, the record is returned
AnswerChatResponse ==
    /\ qpc = "chatting"
    /\ \E answer \in AnswerChoices :
          /\ reply' = answer
          /\ \E sources \in UniqueLists(ResultSources(retrieved)) :
             qret' = [kind |-> "returned",
                      value |-> [answer |-> answer, sources |-> sources,
                                 context_used |-> qa_context]]
    /\ qpc' = "done"
    /\ UNCHANGED <<question, top_k, query_embedding, retrieved, qa_context,
                   prompt, events, api_key, client, getcalls, constructed>>

\* qa_chain.py:119: the chat request fails, the error propagates
AnswerChatFails ==
    /\ qpc = "chatting"
    /\ qret' = ServiceError
    /\ qpc' = "done"
    /\ UNCHANGED <<question, top_k, query_embedding, retrieved, qa_context,
                   prompt, reply, events, api_key, client, getcalls, constructed>>

AnswerStep ==
    \/ AnswerCredentialMissing
    \/ AnswerEmbedRequest
    \/ AnswerEmbedResponse
    \/ AnswerEmbedFails
    \/ AnswerSearchRaises
    \/ AnswerSearchReturns
    \/ AnswerBuildContext
    \/ AnswerChatRequest
    \/ AnswerChatResponse
    \/ AnswerChatFails

NextQA ==
    /\ AnswerStep
    /\ UNCHANGED <<chunkVars, ctxVars, storeVars, procVars, uiVars, embLocals,
                   clientVars, embedVars, raceVars>>

SpecQA == InitQA /\ [][NextQA]_vars

----------------------------------------------------------------------------
(* ask_question (src/src/web_ui.py)                                        *)

\* `answer_question(question, top_k=5)`
UI_TOP_K == 5

\* characters str.strip() removes
Whitespace == {" ", "\t", "\n", "\r"}

RECURSIVE LStrip(_)
LStrip(s) ==
    IF Len(s) > 0 /\ Head(s) \in Whitespace THEN LStrip(Tail(s)) ELSE s

RECURSIVE RStrip(_)
RStrip(s) ==
    IF Len(s) > 0 /\ s[Len(s)] \in Whitespace
    THEN RStrip(SubSeq(s, 1, Len(s) - 1))
    ELSE s

\* `question.strip()`
Strip(s) == RStrip(LStrip(s))

IsBlank_emptyOnly(q) == Len(q) = 0
\* `if not question.strip()`
IsBlank(q) == Len(Strip(q)) = 0

ErrorPrefix ==
    <<"E", "r", "r", "o", "r", ":", " ">>
\* `f"Error: {str(e)}"`
ErrorReply(message) == ErrorPrefix \o message

SourcesPrefix ==
    <<"*", "*", "S", "o", "u", "r", "c", "e", "s", ":", "*", "*", " ">>
\* `"**Sources:** " + ", ".join(sources)` when there are sources, else ""
SourcesText(sources) ==
    IF Len(sources) > 0
    THEN SourcesPrefix \o Join(<<",", " ">>, sources)
    ELSE <<>>

\* questions typed into the interface: empty, blank, and padded text
UiQuestions == {<<>>, <<" ">>, <<" ", "q">>}

\* chat histories the interface may pass in: empty or with earlier turns
Histories == {<<>>, << <<<<"h">>, <<"i">>>> >>}

InitUI ==
    /\ history \in Histories
    /\ history0 = history
    /\ upc = "idle"
    /\ sources_text = <<>>
    /\ asked = <<>>
    /\ qacalls = 0
    /\ api_key \in KeyChoices
    /\ client = None
    /\ client0 = None
    /\ getcalls = 0
    /\ constructed = 0
    /\ QAIdle
    /\ EmbLocalsIdle
    /\ ChunkIdle
    /\ CtxIdle
    /\ StoreIdle
    /\ ProcIdle
    /\ ClientIdle
    /\ EmbedIdle
    /\ RaceIdle

\* web_ui.py:42-43: a blank question returns the history as it is
AskBlank ==
    /\ upc = "idle"
    /\ Len(asked) < MaxAsks
    /\ \E q \in UiQuestions :
          /\ IsBlank(q)
          /\ asked' = Append(asked, [question |-> q, kind |-> "blank"])
    /\ sources_text' = <<>>
    /\ UNCHANGED <<upc, history, history0, qacalls, qaVars, api_key, client,
                   getcalls, constructed>>

\* web_ui.py:45-47: a non-blank question goes to answer_question
AskCall ==
    /\ upc = "idle"
    /\ Len(asked) < MaxAsks
    /\ \E q \in UiQuestions :
          /\ ~IsBlank(q)
          /\ question' = q
    /\ top_k' = UI_TOP_K
    /\ qpc' = "call"
    /\ query_embedding' = <<>>
    /\ retrieved' = <<>>
    /\ qa_context' = <<>>
    /\ prompt' = <<>>
    /\ reply' = None
    /\ qret' = [kind |-> "none"]
    /\ events' = <<>>
    /\ qacalls' = qacalls + 1
    /\ upc' = "answering"
    /\ UNCHANGED <<history, history0, sources_text, asked, api_key, client,
                   getcalls, constructed>>

\* the locals of answer_question are gone once it has returned or raised
AnswerLeft ==
    /\ qpc' = "idle"
    /\ query_embedding' = <<>>
    /\ retrieved' = <<>>
    /\ qa_context' = <<>>
    /\ prompt' = <<>>
    /\ reply' = None
    /\ qret' = [kind |-> "none"]
    /\ UNCHANGED <<question, top_k, events>>

\* web_ui.py:47-61: the answer is appended, the sources are formatted
AskAnswered ==
    /\ upc = "answering"
    /\ qpc = "done"
    /\ qret.kind = "returned"
    /\ LET answer == qret.value.answer
           sources == DictGet(qret.value, "sources", <<>>)
       IN  /\ sources_text' = SourcesText(sources)
           /\ history' = Append(history, <<question, answer>>)
           /\ asked' = Append(asked, [question |-> question,
                                      kind |-> "answered",
                                      reply |-> answer])
    /\ AnswerLeft
    /\ upc' = "idle"
    /\ UNCHANGED <<history0, qacalls, api_key, client, getcalls, constructed>>

\* web_ui.py:63-66: the exception is caught and shown as the reply
AskFailed ==
    /\ upc = "answering"
    /\ qpc = "done"
    /\ qret.kind = "raised"
    /\ LET error_msg == ErrorReply(qret.message)
       IN  /\ history' = Append(history, <<question, error_msg>>)
           /\ asked' = Append(asked, [question |-> question,
                                      kind |-> "failed",
                                      message |-> qret.message])
    /\ sources_text' = <<>>
    /\ AnswerLeft
    /\ upc' = "idle"
    /\ UNCHANGED <<history0, qacalls, api_key, client, getcalls, constructed>>

\* answer_question runs inside ask_question
AskAnswering ==
    /\ upc = "answering"
    /\ AnswerStep
    /\ UNCHANGED uiVars

NextUI ==
    /\ \/ AskBlank
       \/ AskCall
       \/ AskAnswering
       \/ AskAnswered
       \/ AskFailed
    /\ UNCHANGED <<chunkVars, ctxVars, storeVars, procVars, embLocals,
                   clientVars, embedVars, raceVars>>

SpecUI == InitUI /\ [][NextUI]_vars

----------------------------------------------------------------------------
(* get_client called again and again (src/src/embeddings.py)               *)

\* values of OPENAI_API_KEY over the life of the process
ClientKeys == KeyChoices \cup {<<"k", "2">>}

InitClient ==
    /\ api_key \in ClientKeys
    /\ client = None
    /\ client0 = None
    /\ getcalls = 0
    /\ constructed = 0
    /\ keyreads = 0
    /\ handles = <<>>
    /\ EmbLocalsIdle
    /\ ChunkIdle
    /\ CtxIdle
    /\ StoreIdle
    /\ ProcIdle
    /\ QAIdle
    /\ UiIdle
    /\ EmbedIdle
    /\ RaceIdle

\* embeddings.py:21-33: one call of get_client
GetClientCall ==
    /\ getcalls < MaxGetCalls
    /\ LET g == GetClientOutcome(client, api_key)
       IN  /\ client' = IF g.ok THEN g.client ELSE client
           /\ constructed' = constructed + (IF g.ok THEN g.built ELSE 0)
           /\ handles' = Append(handles,
                 IF g.ok
                 THEN [ok |-> TRUE, client |-> g.client, key |-> api_key]
                 ELSE [ok |-> FALSE, error |-> "ValueError", key |-> api_key])
    /\ keyreads' = keyreads + (IF client = None THEN 1 ELSE 0)
    /\ getcalls' = getcalls + 1
    /\ UNCHANGED api_key

\* the environment sets, changes or unsets OPENAI_API_KEY between calls
SetCredential ==
    /\ \E k \in ClientKeys : api_key' = k
    /\ UNCHANGED <<client, getcalls, constructed, keyreads, handles>>

NextClient ==
    /\ \/ GetClientCall
       \/ SetCredential
    /\ UNCHANGED <<chunkVars, ctxVars, storeVars, procVars, qaVars, uiVars,
                   embLocals, embedVars, raceVars>>

SpecClient == InitClient /\ [][NextClient]_vars

----------------------------------------------------------------------------
(* embed_chunks (src/src/embeddings.py)                                    *)

\* `batch_size: int = 100`
DEFAULT_BATCH_SIZE == 100

\* `[chunk["content"] for chunk in chunks]`
ChunkTexts(cs) == [i \in 1..Len(cs) |-> cs[i].content]

ZipLength_dropLast(a, b) == Min(Len(a), Len(b)) - 1
\* `zip(chunks, embeddings)`: as many pairs as the shorter list has
ZipLength(a, b) == Min(Len(a), Len(b))

\* `chunk["embedding"] = embedding`
WithEmbedding(chunk, embedding) ==
    [k \in (DOMAIN chunk) \cup {"embedding"} |->
        IF k = "embedding" THEN embedding ELSE chunk[k]]

\* chunks as process_documents makes them, one embedded before
ChunkChoices ==
    {[content |-> <<"u">>,
      metadata |-> [source |-> <<"a">>, chunk_index |-> 0]],
     [content |-> <<"v", "v">>,
      metadata |-> [source |-> <<"a">>, chunk_index |-> 1]],
     [content |-> <<"u">>,
      metadata |-> [source |-> <<"b">>, chunk_index |-> 0],
      embedding |-> ConstVector(9)]}

InitEmbed ==
    /\ echunks \in SeqsUpTo(ChunkChoices, MaxEmbedChunks)
    /\ echunks0 = echunks
    /\ ecpc = "call"
    /\ zi = 0
    /\ ecret = [kind |-> "none"]
    /\ api_key \in KeyChoices
    /\ client \in {None, NewClient(<<"s", "k">>)}
    /\ client0 = client
    /\ getcalls = 0
    /\ constructed = 0
    /\ EmbLocalsIdle
    /\ ChunkIdle
    /\ CtxIdle
    /\ StoreIdle
    /\ ProcIdle
    /\ QAIdle
    /\ UiIdle
    /\ ClientIdle
    /\ RaceIdle

\* embeddings.py:92-93: collect the texts and call generate_embeddings
EmbedChunksCall ==
    /\ ecpc = "call"
    /\ texts' = ChunkTexts(echunks)
    /\ batch_size' = DEFAULT_BATCH_SIZE
    /\ epc' = "call"
    /\ all_embeddings' = <<>>
    /\ bi' = 0
    /\ inflight' = <<>>
    /\ requests' = <<>>
    /\ responses' = 0
    /\ eret' = [kind |-> "none"]
    /\ ecpc' = "generating"
    /\ UNCHANGED <<api_key, client, client0, getcalls, constructed, echunks,
                   echunks0, zi, ecret>>

\* embeddings.py:93: generate_embeddings runs
EmbedChunksGenerating ==
    /\ ecpc = "generating"
    /\ \/ GenerateNothing
       \/ GetClientCached
       \/ GetClientMissingKey
       \/ GetClientCreate
       \/ GenerateRequest
       \/ GenerateResponse
       \/ GenerateReturn
    /\ UNCHANGED embedVars

\* embeddings.py:93: generate_embeddings has returned its vectors
EmbedChunksGenerated ==
    /\ ecpc = "generating"
    /\ epc = "done"
    /\ eret.kind = "returned"
    /\ zi' = 0
    /\ ecpc' = "zip"
    /\ UNCHANGED <<embVars, echunks, echunks0, ecret>>

\* embeddings.py:93: the error of generate_embeddings propagates
EmbedChunksRaise ==
    /\ ecpc = "generating"
    /\ epc = "done"
    /\ eret.kind = "raised"
    /\ ecret' = eret
    /\ ecpc' = "done"
    /\ UNCHANGED <<embVars, echunks, echunks0, zi>>

\* embeddings.py:95-96: the next pair of the zip
EmbedChunksAssign ==
    /\ ecpc = "zip"
    /\ zi < ZipLength(echunks, eret.value)
    /\ echunks' = [echunks EXCEPT
                     ![zi + 1] = WithEmbedding(echunks[zi + 1],
                                               eret.value[zi + 1])]
    /\ zi' = zi + 1
    /\ UNCHANGED <<embVars, ecpc, echunks0, ecret>>

\* embeddings.py:95, 98: the zip is exhausted, return chunks
EmbedChunksReturn ==
    /\ ecpc = "zip"
    /\ zi >= ZipLength(echunks, eret.value)
    /\ ecret' = [kind |-> "returned", value |-> echunks]
    /\ ecpc' = "done"
    /\ UNCHANGED <<embVars, echunks, echunks0, zi>>

NextEmbed ==
    /\ \/ EmbedChunksCall
       \/ EmbedChunksGenerating
       \/ EmbedChunksGenerated
       \/ EmbedChunksRaise
       \/ EmbedChunksAssign
       \/ EmbedChunksReturn
    /\ UNCHANGED <<chunkVars, ctxVars, storeVars, procVars, qaVars, uiVars,
                   clientVars, raceVars>>

SpecEmbed == InitEmbed /\ [][NextEmbed]_vars

----------------------------------------------------------------------------
(* initialize_collection run by several callers at once                    *)
(* (src/src/retriever.py)                                                  *)

Callers == 1..MaxCallers

storeLocals == <<spc, sop, recreate, collection_names, schunks, squery,
                 stop_k, sret, calls, ncalls>>

StoreLocalsIdle ==
    /\ spc = "idle"
    /\ sop = "none"
    /\ recreate = FALSE
    /\ collection_names = {}
    /\ schunks = <<>>
    /\ squery = <<>>
    /\ stop_k = 1
    /\ sret = [kind |-> "none"]
    /\ calls = <<>>
    /\ ncalls = 0

InitRace ==
    /\ qdrant \in InitialStores
    /\ qdrant0 = qdrant
    /\ rrecreate \in [Callers -> BOOLEAN]
    /\ rpc = [c \in Callers |-> "call"]
    /\ rnames = [c \in Callers |-> {}]
    /\ rret = [c \in Callers |-> [kind |-> "none"]]
    /\ rcalls = <<>>
    /\ StoreLocalsIdle
    /\ ChunkIdle
    /\ CtxIdle
    /\ EmbIdle
    /\ ProcIdle
    /\ QAIdle
    /\ UiIdle
    /\ ClientIdle
    /\ EmbedIdle

\* a store request of caller c, with whether the collection existed when the
\* store received it
Request(c, name) ==
    [caller |-> c, request |-> name,
     existed |-> COLLECTION_NAME \in DOMAIN qdrant]

\* retriever.py:37-38: a caller lists the collection names
RaceList ==
    \E c \in Callers :
       /\ rpc[c] = "call"
       /\ rnames' = [rnames EXCEPT ![c] = QGetCollections(qdrant)]
       /\ rcalls' = Append(rcalls, Request(c, "get_collections"))
       /\ rpc' = [rpc EXCEPT ![c] = "listed"]
       /\ UNCHANGED <<qdrant, qdrant0, rrecreate, rret>>

\* retriever.py:40, 43-44: the caller saw the collection and keeps it
RaceKeep ==
    \E c \in Callers :
       /\ rpc[c] = "listed"
       /\ ReturnsEarly(NameListed(COLLECTION_NAME, rnames[c]), rrecreate[c])
       /\ rret' = [rret EXCEPT ![c] = [kind |-> "returned"]]
       /\ rpc' = [rpc EXCEPT ![c] = "done"]
       /\ UNCHANGED <<qdrant, qdrant0, rrecreate, rnames, rcalls>>

\* retriever.py:40-42: the caller saw the collection and deletes it
RaceDelete ==
    \E c \in Callers :
       /\ rpc[c] = "listed"
       /\ MustDelete(NameListed(COLLECTION_NAME, rnames[c]), rrecreate[c])
       /\ qdrant' = QDeleteCollection(qdrant, COLLECTION_NAME)
       /\ rcalls' = Append(rcalls, Request(c, "delete_collection"))
       /\ rpc' = [rpc EXCEPT ![c] = "create"]
       /\ UNCHANGED <<qdrant0, rrecreate, rnames, rret>>

\* retriever.py:46-53: the caller creates the collection; a refusal of the
\* store propagates as an exception
RaceCreate ==
    \E c \in Callers :
       /\ \/ rpc[c] = "create"
          \/ /\ rpc[c] = "listed"
             /\ ~ReturnsEarly(NameListed(COLLECTION_NAME, rnames[c]),
                              rrecreate[c])
             /\ ~MustDelete(NameListed(COLLECTION_NAME, rnames[c]),
                            rrecreate[c])
       /\ LET r == QCreateCollection(qdrant, COLLECTION_NAME, VECTOR_SIZE,
                                     COSINE)
          IN  /\ qdrant' = r.store
              /\ rret' = [rret EXCEPT ![c] =
                            IF r.ok THEN [kind |-> "returned"]
                            ELSE [kind |-> "raised",
                                  error |-> "UnexpectedResponse"]]
       /\ rcalls' = Append(rcalls, Request(c, "create_collection"))
       /\ rpc' = [rpc EXCEPT ![c] = "done"]
       /\ UNCHANGED <<qdrant0, rrecreate, rnames>>

NextRace ==
    /\ \/ RaceList
       \/ RaceKeep
       \/ RaceDelete
       \/ RaceCreate
    /\ UNCHANGED <<chunkVars, ctxVars, storeLocals, embVars, procVars, qaVars,
                   uiVars, clientVars, embedVars>>

SpecRace == InitRace /\ [][NextRace]_vars

----------------------------------------------------------------------------
(* Properties of chunk_document                                            *)

\* the documented precondition 0 <= overlap < chunk_size
ValidOverlap == 0 <= overlap /\ overlap < chunk_size

FirstN(s, n) == SubSeq(s, 1, n)
LastN(s, n) == SubSeq(s, Len(s) - n + 1, Len(s))

\* the last n characters of s, all of s when it is shorter than n
TailOf(s, n) == IF Len(s) >= n THEN LastN(s, n) ELSE s

IsSubstring(t, s) ==
    \E j \in 0..(Len(s) - Len(t)) : SubSeq(s, j + 1, j + Len(t)) = t

CharsOf(s) == {s[p] : p \in 1..Len(s)}

\* C2 (as claimed): every call terminates, a call with overlap >= chunk_size
\* being rejected by validation instead of looping: the window loop never
\* collects more chunks than content has characters.
C2_OverlapValidated ==
    Len(chunks) <= Max(Len(content), 1)

\* C3: empty content gives the empty list; content of length 1..chunk_size
\* (chunk_size included) gives the one-element list [content], whatever the
\* overlap.
C3_ShortContent ==
    cpc = "done" =>
        /\ (Len(content) = 0 => chunks = <<>>)
        /\ (1 <= Len(content) /\ Len(content) <= chunk_size
                => chunks = <<content>>)

C3_Witness ==
    /\ cpc = "done"
    /\ Len(content) = chunk_size
    /\ overlap >= 1
    /\ chunks = <<content>>

\* C4: with 0 <= overlap < chunk_size every chunk collected or returned has
\* length between 1 and chunk_size.
C4_ChunkLengths ==
    ValidOverlap =>
        \A k \in 1..Len(chunks) :
            1 <= Len(chunks[k]) /\ Len(chunks[k]) <= chunk_size

C4_Witness ==
    /\ cpc = "done"
    /\ ValidOverlap
    /\ Len(chunks) >= 2
    /\ Len(chunks[1]) = chunk_size
    /\ Len(chunks[Len(chunks)]) < chunk_size

\* C5: with 0 <= overlap < chunk_size every character position of content
\* lies inside the window of some returned chunk, which holds that very
\* character, and the set of characters of the chunks is that of content.
C5_NoDataLoss ==
    (cpc = "done" /\ ValidOverlap) =>
        /\ \A p \in 1..Len(content) :
              \E k \in 1..Len(chunks) :
                  /\ starts[k] < p
                  /\ p <= starts[k] + Len(chunks[k])
                  /\ chunks[k][p - starts[k]] = content[p]
        /\ UNION {CharsOf(chunks[k]) : k \in 1..Len(chunks)} = CharsOf(content)

C5_Witness ==
    /\ cpc = "done"
    /\ ValidOverlap
    /\ Len(chunks) >= 3
    /\ Cardinality(CharsOf(content)) = 3

\* C6: two adjacent chunks that both have length chunk_size share `overlap`
\* characters: the last `overlap` characters of the first are the first
\* `overlap` characters of the second, at the same positions of content.
C6_FullChunksOverlap ==
    (cpc = "done" /\ ValidOverlap) =>
        \A i \in 1..(Len(chunks) - 1) :
            (Len(chunks[i]) = chunk_size /\ Len(chunks[i + 1]) = chunk_size)
                => /\ LastN(chunks[i], overlap) = FirstN(chunks[i + 1], overlap)
                   /\ starts[i] + chunk_size - overlap = starts[i + 1]

C6_Witness ==
    /\ cpc = "done"
    /\ ValidOverlap
    /\ overlap >= 1
    /\ \E i \in 1..(Len(chunks) - 1) :
          /\ Len(chunks[i]) = chunk_size
          /\ Len(chunks[i + 1]) = chunk_size
          /\ Cardinality(CharsOf(chunks[i])) >= 2

\* C7 (as claimed): in an output of at least 2 chunks the last `overlap`
\* characters of every chunk but the last (the whole chunk when shorter than
\* `overlap`) occur contiguously in the next chunk, short tail chunks
\* included.
C7_TailInNextChunk ==
    (cpc = "done" /\ ValidOverlap /\ Len(chunks) >= 2) =>
        \A i \in 1..(Len(chunks) - 1) :
            IsSubstring(TailOf(chunks[i], overlap), chunks[i + 1])

\* C7 (amended): in an output of at least 2 chunks the last `overlap`
\* characters of every chunk of length chunk_size other than the last occur
\* contiguously in the next chunk, also when that next chunk is a short tail
\* chunk.
C7_FullTailInNextChunk ==
    (cpc = "done" /\ ValidOverlap /\ Len(chunks) >= 2) =>
        \A i \in 1..(Len(chunks) - 1) :
            Len(chunks[i]) = chunk_size =>
                IsSubstring(TailOf(chunks[i], overlap), chunks[i + 1])

C7_Witness ==
    /\ cpc = "done"
    /\ ValidOverlap
    /\ overlap >= 1
    /\ \E i \in 1..(Len(chunks) - 1) :
          /\ Len(chunks[i]) = chunk_size
          /\ Len(chunks[i + 1]) < chunk_size
          /\ Cardinality(CharsOf(chunks[i])) >= 2

IsBasicCall ==
    /\ chunk_size = BasicChunkSize
    /\ overlap = BasicOverlap
    /\ content = BasicText

\* C8 (as claimed): 1000 repeated characters with chunk_size 500 and overlap
\* 100 give between 5 and 10 chunks.
C8_FiveToTenChunks ==
    (cpc = "done" /\ IsBasicCall) => (5 <= Len(chunks) /\ Len(chunks) <= 10)

\* C8 (amended): 1000 repeated characters with chunk_size 500 and overlap 100
\* give exactly 3 chunks.
C8_ThreeChunks ==
    (cpc = "done" /\ IsBasicCall) => Len(chunks) = 3

C8_Witness ==
    /\ cpc = "done"
    /\ IsBasicCall
    /\ Len(chunks) = 3
    /\ Len(chunks[3]) = 200

IsCountCall ==
    /\ chunk_size = CountChunkSize
    /\ overlap = CountOverlap
    /\ content = CountText

\* C23: for len(content) > chunk_size and 0 <= overlap < chunk_size, with
\* step = chunk_size - overlap, the output is exactly the windows
\* content[k*step : k*step + chunk_size] for k = 0..n-1, n being
\* ceil(len(content)/step); 1000 characters with chunk_size 200 and overlap
\* 50 give 7 chunks, inside the range 5..10.
C23_WindowPerOffset ==
    (cpc = "done" /\ Len(content) > chunk_size /\ ValidOverlap) =>
        LET stp == chunk_size - overlap
            n == (Len(content) + stp - 1) \div stp
        IN  /\ Len(chunks) = n
            /\ \A k \in 0..(n - 1) :
                  /\ k * stp < Len(content)
                  /\ chunks[k + 1] =
                        SubSeq(content, k * stp + 1,
                               Min(k * stp + chunk_size, Len(content)))
            /\ IsCountCall =>
                  (Len(chunks) = 7 /\ 5 <= Len(chunks) /\ Len(chunks) <= 10)

C23_Witness ==
    /\ cpc = "done"
    /\ IsCountCall
    /\ Len(chunks) = 7
    /\ Len(chunks[6]) = 200
    /\ Len(chunks[7]) = 100

\* C24 (as claimed): in the sliding-window case every chunk except the last
\* has length exactly chunk_size.
C24_OnlyFinalShort ==
    (cpc = "done" /\ Len(content) > chunk_size /\ ValidOverlap) =>
        \A i \in 1..(Len(chunks) - 1) : Len(chunks[i]) = chunk_size

\* C24 (amended): in the sliding-window case chunk k has length
\* min(chunk_size, len(content) - start_k): the chunks of length chunk_size
\* come first, every chunk from the first window with
\* start + chunk_size >= len(content) on is the suffix content[start:], and
\* each chunk after that window is strictly shorter than the one before it.
C24_ShortChunksAreSuffixes ==
    (cpc = "done" /\ Len(content) > chunk_size /\ ValidOverlap) =>
        /\ \A i \in 1..Len(chunks) :
              /\ Len(chunks[i]) = Min(chunk_size, Len(content) - starts[i])
              /\ starts[i] + chunk_size >= Len(content) =>
                    chunks[i] = SubSeq(content, starts[i] + 1, Len(content))
        /\ \A i \in 1..(Len(chunks) - 1) :
              /\ Len(chunks[i]) >= Len(chunks[i + 1])
              /\ starts[i] + chunk_size >= Len(content) =>
                    Len(chunks[i + 1]) < Len(chunks[i])

C24_Witness ==
    /\ cpc = "done"
    /\ ValidOverlap
    /\ Len(chunks) >= 4
    /\ Len(chunks[Len(chunks) - 2]) = chunk_size
    /\ Len(chunks[Len(chunks) - 1]) < chunk_size
    /\ Len(chunks[Len(chunks)]) < Len(chunks[Len(chunks) - 1])

----------------------------------------------------------------------------
(* Properties of build_context                                             *)

\* C1 (as claimed): the returned string, separators included, is never
\* longer than max_context_length.
C1_LengthBounded ==
    bpc = "done" => Len(context) <= max_context_length

\* the block a result at position pos must produce:
\* "[Source <pos>: <source>]\n<content>\n"
BlockShape(pos) ==
    LET r == results[pos]
        src == IF "metadata" \in DOMAIN r /\ "source" \in DOMAIN r.metadata
               THEN r.metadata.source
               ELSE <<"U", "n", "k", "n", "o", "w", "n">>
    IN  <<"[", "S", "o", "u", "r", "c", "e", " ">> \o DecimalString(pos)
            \o <<":", " ">> \o src \o <<"]", "\n">> \o r.content \o <<"\n">>

RECURSIVE BlocksLength(_)
BlocksLength(k) == IF k = 0 THEN 0 ELSE BlocksLength(k - 1) + Len(BlockShape(k))

\* the first k blocks, an empty line between consecutive blocks
RECURSIVE BlankLineJoined(_)
BlankLineJoined(k) ==
    IF k = 0 THEN <<>>
    ELSE IF k = 1 THEN BlockShape(1)
    ELSE BlankLineJoined(k - 1) \o <<"\n">> \o BlockShape(k)

\* length of the longest prefix of results whose blocks together fit
LongestFittingPrefix ==
    CHOOSE k \in 0..Len(results) :
        /\ BlocksLength(k) <= max_context_length
        /\ \A j \in (k + 1)..Len(results) : BlocksLength(j) > max_context_length

\* C9: the output is exactly the blocks of the longest prefix of results
\* whose cumulative block length is <= max_context_length, one blank line
\* between consecutive blocks; nothing after the first overflowing block is
\* included; empty results give the empty string.
C9_FirstFitPrefix ==
    bpc = "done" =>
        /\ context = BlankLineJoined(LongestFittingPrefix)
        /\ Len(context_parts) = LongestFittingPrefix
        /\ (results = <<>> => context = <<>>)

C9_Witness ==
    /\ bpc = "done"
    /\ Len(context_parts) >= 1
    /\ \E j \in (Len(context_parts) + 2)..Len(results) :
          total_length + Len(BlockShape(j)) <= max_context_length

\* C10: every emitted block is "[Source i: <source>]\n<content>\n" with i the
\* 1-based position of its result in the input, the content unchanged and
\* the source taken from the metadata ("Unknown" when metadata or source is
\* missing); the blocks appear in input order.
C10_BlockShape ==
    /\ \A k \in 1..Len(context_parts) : context_parts[k] = BlockShape(k)
    /\ bpc = "done" => context = BlankLineJoined(Len(context_parts))

C10_Witness ==
    /\ bpc = "done"
    /\ Len(context_parts) = 3
    /\ "metadata" \notin DOMAIN results[1]
    /\ "metadata" \in DOMAIN results[2]
    /\ results[2].metadata = EmptyDict
    /\ "metadata" \in DOMAIN results[3]
    /\ "source" \in DOMAIN results[3].metadata
    /\ results[3].metadata.source = <<"a">>
    /\ results[1].content # results[2].content

----------------------------------------------------------------------------
(* Properties of the retriever operations                                  *)

Finished(op) == spc = "done" /\ sop = op

HasCollection(q) == COLLECTION_NAME \in DOMAIN q

PointsOf(q) == q[COLLECTION_NAME].points

Requested(name) == \E i \in 1..Len(calls) : calls[i] = name

\* C11 (as claimed): store_embeddings([]) returns 0, issues no upsert and
\* leaves the store as it was.
C11_StoreEmptyReturnsZero ==
    (Finished("store_embeddings") /\ schunks = <<>>) =>
        /\ sret = [kind |-> "returned", value |-> 0]
        /\ ~Requested("upsert")
        /\ qdrant = qdrant0

\* C12 (as claimed): store_embeddings of n >= 1 chunks with embeddings of
\* length VECTOR_SIZE on a freshly recreated collection returns n, and the
\* collection then holds those n points.
C12_StoreReturnsCount ==
    (/\ Finished("store_embeddings")
     /\ Len(schunks) >= 1
     /\ \A i \in 1..Len(schunks) : Len(schunks[i].embedding) = VECTOR_SIZE
     /\ HasCollection(qdrant0)
     /\ PointsOf(qdrant0) = NoPoints) =>
        /\ sret = [kind |-> "returned", value |-> Len(schunks)]
        /\ HasCollection(qdrant)
        /\ Len(PointsOf(qdrant)) = Len(schunks)

\* C13 (as claimed): search with top_k = k >= 1 on a collection of m points
\* returns exactly min(k, m) results, each with the keys content, metadata
\* and score; on an empty collection it returns no result and does not raise.
C13_SearchReturnsTopK ==
    (Finished("search") /\ HasCollection(qdrant0)) =>
        /\ sret.kind = "returned"
        /\ Len(sret.value) = Min(stop_k, Len(PointsOf(qdrant0)))
        /\ \A i \in 1..Len(sret.value) :
              DOMAIN sret.value[i] = {"content", "metadata", "score"}

\* C14 (as claimed): search returns its results ordered by score, highest
\* first.
C14_SearchOrdered ==
    Finished("search") =>
        /\ sret.kind = "returned"
        /\ \A i \in 1..(Len(sret.value) - 1) :
              sret.value[i].score >= sret.value[i + 1].score

\* C18: initialize_collection(recreate=False) creates the collection only
\* when it is absent: an existing collection sees neither delete_collection
\* nor create_collection and the store is unchanged; an absent one is created
\* by exactly one create_collection with size VECTOR_SIZE and cosine
\* distance; in both cases the collection exists afterwards.
C18_CreateIfAbsent ==
    (Finished("initialize_collection") /\ ~recreate) =>
        /\ sret = [kind |-> "returned"]
        /\ HasCollection(qdrant)
        /\ HasCollection(qdrant0) =>
              /\ calls = <<"get_collections">>
              /\ qdrant = qdrant0
        /\ ~HasCollection(qdrant0) =>
              /\ calls = <<"get_collections", "create_collection">>
              /\ qdrant[COLLECTION_NAME] =
                    [size |-> 1536, distance |-> "Cosine", points |-> <<>>]
              /\ \A n \in DOMAIN qdrant0 :
                    n \in DOMAIN qdrant /\ qdrant[n] = qdrant0[n]

C18_Witness ==
    /\ Finished("initialize_collection")
    /\ ~recreate
    /\ ncalls = 2
    /\ HasCollection(qdrant0)
    /\ Len(PointsOf(qdrant0)) = 2
    /\ qdrant = qdrant0

\* C19: initialize_collection(recreate=True) resets the collection: an
\* existing one is deleted and then created, an absent one is just created;
\* afterwards the collection exists and holds no point.
C19_RecreateResets ==
    (Finished("initialize_collection") /\ recreate) =>
        /\ sret = [kind |-> "returned"]
        /\ HasCollection(qdrant0) =>
              calls = <<"get_collections", "delete_collection", "create_collection">>
        /\ ~HasCollection(qdrant0) =>
              calls = <<"get_collections", "create_collection">>
        /\ HasCollection(qdrant)
        /\ PointsOf(qdrant) = <<>>

C19_Witness ==
    /\ Finished("initialize_collection")
    /\ recreate
    /\ HasCollection(qdrant0)
    /\ Len(PointsOf(qdrant0)) = 2
    /\ HasCollection(qdrant)
    /\ PointsOf(qdrant) = <<>>
    /\ Len(calls) = 3

----------------------------------------------------------------------------
(* Properties of generate_embeddings                                       *)

RECURSIVE Flatten(_)
Flatten(ss) == IF Len(ss) = 0 THEN <<>> ELSE Head(ss) \o Flatten(Tail(ss))

\* C15: with batch_size b >= 1 and a service answering one vector per text
\* in order, generate_embeddings returns len(texts) vectors, the i-th being
\* that of the i-th text; it sends ceil(len(texts)/b) requests of at most b
\* texts each, in input order, each one only after the previous response.
C15_BatchedInOrder ==
    /\ Len(requests) <= responses + 1
    /\ (epc = "done" /\ eret.kind = "returned") =>
          /\ Len(eret.value) = Len(texts)
          /\ \A i \in 1..Len(texts) :
                /\ Len(eret.value[i]) = 1536
                /\ \A d \in 1..1536 : eret.value[i][d] = Len(texts[i])
          /\ Len(requests) = (Len(texts) + batch_size - 1) \div batch_size
          /\ \A r \in 1..Len(requests) :
                1 <= Len(requests[r]) /\ Len(requests[r]) <= batch_size
          /\ Flatten(requests) = texts
          /\ responses = Len(requests)

C15_Witness ==
    /\ epc = "done"
    /\ eret.kind = "returned"
    /\ Len(texts) = 4
    /\ batch_size = 3
    /\ texts[1] # texts[2]
    /\ Len(requests) = 2

\* C16: generate_embeddings([]) returns [] without calling get_client or the
\* service; it succeeds and leaves the module-level handle as it was, also
\* when no credential is configured.
C16_EmptyInput ==
    (epc = "done" /\ texts = <<>>) =>
        /\ eret = [kind |-> "returned", value |-> <<>>]
        /\ getcalls = 0
        /\ constructed = 0
        /\ requests = <<>>
        /\ client = client0

C16_Witness ==
    /\ epc = "done"
    /\ texts = <<>>
    /\ api_key = None
    /\ client = None
    /\ eret = [kind |-> "returned", value |-> <<>>]

NoCredentialCall ==
    /\ epc = "done"
    /\ texts # <<>>
    /\ (api_key = None \/ api_key = <<>>)
    /\ client0 = None

\* C17 (as claimed): on a non-empty list, with no credential and no handle,
\* generate_embeddings fails with an AuthenticationError before any request.
C17_AuthenticationError ==
    NoCredentialCall =>
        /\ eret = [kind |-> "raised", error |-> "AuthenticationError"]
        /\ requests = <<>>

\* C17 (amended): on a non-empty list, with no credential and no handle,
\* generate_embeddings fails with a ValueError raised before any embedding
\* request is issued, returns no vectors and leaves the handle unset.
C17_ValueError ==
    NoCredentialCall =>
        /\ eret = [kind |-> "raised", error |-> "ValueError"]
        /\ requests = <<>>
        /\ all_embeddings = <<>>
        /\ client = None
        /\ constructed = 0

C17_Witness ==
    /\ NoCredentialCall
    /\ api_key = <<>>
    /\ Len(texts) = 2
    /\ eret.kind = "raised"

----------------------------------------------------------------------------
(* Properties of process_documents                                         *)

\* number of chunks chunk_document makes of document d
ChunkCount(d) ==
    Len(ChunkDocument(documents[d].content, pchunk_size, poverlap))

\* number of records emitted for the documents before d
RECURSIVE RecordsBefore(_)
RecordsBefore(d) ==
    IF d <= 1 THEN 0 ELSE RecordsBefore(d - 1) + ChunkCount(d - 1)

\* C20: a document that chunk_document splits into n chunks gives exactly n
\* consecutive records, in chunk order, with chunk_index 0..n-1, total_chunks
\* n and the document's source and path; the number of records is the sum of
\* n over the documents.
C20_ChunkRecords ==
    ppc = "done" =>
        /\ Len(all_chunks) = RecordsBefore(Len(documents) + 1)
        /\ \A d \in 1..Len(documents) :
              \A j \in 0..(ChunkCount(d) - 1) :
                 LET rec == all_chunks[RecordsBefore(d) + j + 1]
                 IN  /\ rec.content =
                          ChunkDocument(documents[d].content, pchunk_size,
                                        poverlap)[j + 1]
                     /\ DOMAIN rec.metadata =
                          {"source", "path", "chunk_index", "total_chunks"}
                     /\ rec.metadata.chunk_index = j
                     /\ rec.metadata.total_chunks = ChunkCount(d)
                     /\ rec.metadata.source = documents[d].metadata.source
                     /\ rec.metadata.path = documents[d].metadata.path

C20_Witness ==
    /\ ppc = "done"
    /\ Len(documents) = 2
    /\ ChunkCount(1) >= 3
    /\ ChunkCount(2) >= 2
    /\ ChunkCount(1) # ChunkCount(2)
    /\ Len(all_chunks) = ChunkCount(1) + ChunkCount(2)

----------------------------------------------------------------------------
(* Properties of answer_question                                           *)

Returned == qpc = "done" /\ qret.kind = "returned"

Issued(name) == \E i \in 1..Len(events) : events[i] = name

TimesIssued(name) == Cardinality({i \in 1..Len(events) : events[i] = name})

\* the source named by the result at position i, "Unknown" when missing
NamedSource(i) ==
    IF "metadata" \in DOMAIN retrieved[i]
       /\ "source" \in DOMAIN retrieved[i].metadata
    THEN retrieved[i].metadata.source
    ELSE <<"U", "n", "k", "n", "o", "w", "n">>

C22_ErrorsPropagate ==
    /\ \A i \in 1..Len(events) :
          events[i] = <<"embeddings.create", "search", "build_context",
                        "chat.completions.create">>[i]
    /\ Issued("chat.completions.create") =>
          /\ Len(query_embedding) = 1536
          /\ prompt = PromptOf(qa_context, question)
    /\ (qpc = "done" /\ ~Issued("chat.completions.create")) =>
          /\ qret.kind = "raised"
          /\ events = <<>> => qret.error = "ValueError"
          /\ events = <<"embeddings.create">> =>
                qret.error = "APIConnectionError"
          /\ events = <<"embeddings.create", "search">> =>
                qret.error = "NotImplementedError"
    /\ (qpc = "done" /\ qret.kind = "returned") =>
          Issued("chat.completions.create")

C22_Witness ==
    /\ qpc = "done"
    /\ events = <<"embeddings.create", "search">>
    /\ qret.kind = "raised"
    /\ qret.error = "NotImplementedError"
    /\ client0 = None
    /\ constructed = 1

\* the block build_context makes of the result at position i
SourceBlock(i) ==
    <<"[", "S", "o", "u", "r", "c", "e", " ">> \o DecimalString(i)
        \o <<":", " ">> \o NamedSource(i) \o <<"]", "\n">>
        \o retrieved[i].content \o <<"\n">>

----------------------------------------------------------------------------
(* Properties of ask_question                                              *)

OnlyWhitespace(q) == \A p \in 1..Len(q) : q[p] \in {" ", "\t", "\n", "\r"}

\* the (question, reply) pairs the calls recorded in a must have appended
RECURSIVE Turns(_)
Turns(a) ==
    IF Len(a) = 0 THEN <<>>
    ELSE LET e == a[Len(a)]
             before == Turns(SubSeq(a, 1, Len(a) - 1))
         IN  IF e.kind = "blank" THEN before
             ELSE IF e.kind = "answered"
             THEN Append(before, <<e.question, e.reply>>)
             ELSE Append(before,
                         <<e.question,
                           <<"E", "r", "r", "o", "r", ":", " ">> \o e.message>>)

NonBlankAsked == Cardinality({i \in 1..Len(asked) : asked[i].kind # "blank"})

\* C27: ask_question never raises and only appends to the chat history: a
\* blank or whitespace-only question leaves the history as it is, returns
\* empty sources text and does not call answer_question; a non-blank question
\* appends exactly one (question, reply) pair, reply being the answer or
\* "Error: <message>" (sources text then empty); so the history is the
\* initial one followed by one pair per non-blank question, in call order.
C27_HistoryAppendOnly ==
    /\ \A i \in 1..Len(asked) :
          (asked[i].kind = "blank") <=> OnlyWhitespace(asked[i].question)
    /\ history = history0 \o Turns(asked)
    /\ Len(history) = Len(history0) + NonBlankAsked
    /\ qacalls = NonBlankAsked + (IF upc = "answering" THEN 1 ELSE 0)
    /\ (upc = "idle" /\ Len(asked) > 0) =>
          LET last == asked[Len(asked)]
          IN  /\ last.kind \in {"blank", "failed"} => sources_text = <<>>
              /\ (last.kind = "answered" /\ sources_text # <<>>) =>
                    SubSeq(sources_text, 1, 13) =
                       <<"*", "*", "S", "o", "u", "r", "c", "e", "s", ":",
                         "*", "*", " ">>

C27_Witness ==
    /\ upc = "idle"
    /\ Len(asked) = 2
    /\ asked[1].kind = "failed"
    /\ asked[1].question = <<" ", "q">>
    /\ asked[2].kind = "blank"
    /\ asked[2].question = <<" ">>
    /\ Len(history0) = 1
    /\ Len(history) = 2
    /\ history[1] = history0[1]

----------------------------------------------------------------------------
(* Properties of get_client                                                *)

Configured(key) == key # [none |-> TRUE] /\ Len(key) > 0

FailedCalls == Cardinality({i \in 1..Len(handles) : ~handles[i].ok})

\* C25: get_client keeps a lazily initialised single handle: at most one
\* client is ever constructed; from the first successful call on every call
\* returns that same handle and the credential is not read again; a call
\* without a credential fails and leaves the handle unset, and a call made
\* with the credential configured succeeds, building the handle from it.
C25_SingleHandle ==
    /\ constructed <= 1
    /\ (client = None) <=> (constructed = 0)
    /\ \A i \in 1..Len(handles) :
          /\ handles[i].ok <=> (Configured(handles[i].key)
                                \/ \E j \in 1..(i - 1) : handles[j].ok)
          /\ handles[i].ok =>
                \A j \in i..Len(handles) :
                   handles[j].ok /\ handles[j].client = handles[i].client
          /\ (handles[i].ok /\ \A j \in 1..(i - 1) : ~handles[j].ok) =>
                handles[i].client = [api_key |-> handles[i].key]
    /\ (Len(handles) > 0 /\ ~handles[Len(handles)].ok) => client = None
    /\ keyreads = FailedCalls + constructed

C25_Witness ==
    /\ Len(handles) = 3
    /\ ~handles[1].ok
    /\ handles[2].ok
    /\ handles[3].ok
    /\ handles[3].key = <<>>
    /\ handles[3].client = handles[2].client
    /\ keyreads = 2
    /\ constructed = 1

----------------------------------------------------------------------------
(* Properties of embed_chunks                                              *)

\* C26: embed_chunks returns the same list, with as many chunks in the same
\* order; every chunk then has an 'embedding', chunk i holding the i-th
\* vector generate_embeddings returned for the chunk contents, and content
\* and metadata of every chunk are as they were.
C26_EmbeddingsAdded ==
    (ecpc = "done" /\ ecret.kind = "returned") =>
        /\ ecret.value = echunks
        /\ Len(echunks) = Len(echunks0)
        /\ Len(eret.value) = Len(echunks0)
        /\ texts = [i \in 1..Len(echunks0) |-> echunks0[i].content]
        /\ \A i \in 1..Len(echunks0) :
              /\ DOMAIN echunks[i] = (DOMAIN echunks0[i]) \cup {"embedding"}
              /\ echunks[i].embedding = eret.value[i]
              /\ Len(echunks[i].embedding) = 1536
              /\ echunks[i].embedding[1] = Len(echunks0[i].content)
              /\ echunks[i].content = echunks0[i].content
              /\ echunks[i].metadata = echunks0[i].metadata

C26_Witness ==
    /\ ecpc = "done"
    /\ ecret.kind = "returned"
    /\ Len(echunks0) = 3
    /\ echunks0[1].content # echunks0[2].content
    /\ "embedding" \in DOMAIN echunks0[3]
    /\ echunks[3].embedding # echunks0[3].embedding
    /\ Len(requests) = 1

----------------------------------------------------------------------------
(* Properties of concurrent initialize_collection                          *)

CreatesIssued ==
    Cardinality({i \in 1..Len(rcalls) :
                    rcalls[i].request = "create_collection"})

\* C29 (as claimed): when initialize_collection(recreate=False) calls against
\* an initially absent collection interleave, create_collection is never
\* issued for a collection that exists: every call completes without a store
\* error and the collection is created exactly once.
C29_CreatedExactlyOnce ==
    (/\ "documents" \notin DOMAIN qdrant0
     /\ \A c \in DOMAIN rpc : ~rrecreate[c]) =>
        /\ \A i \in 1..Len(rcalls) :
              rcalls[i].request = "create_collection" => ~rcalls[i].existed
        /\ \A c \in DOMAIN rpc : rret[c].kind # "raised"
        /\ (\A c \in DOMAIN rpc : rpc[c] = "done") =>
              /\ \A c \in DOMAIN rpc : rret[c].kind = "returned"
              /\ CreatesIssued = 1

====
